---- MODULE Spec2Model ----
(***************************************************************************)
(* Model of the Tanakh gematria dataset builder (precompute_tanakh.py) and *)
(* of the gematria methods it calls (torahcalc_methods.py).                *)
(*                                                                         *)
(* Spec is a run of main() over an input directory or a single file.       *)
(* MethodSpec is a call of one method on one string, or the substitution   *)
(* of the cipher methods applied to one string.                            *)
(*                                                                         *)
(* A Python str is a sequence of code points (natural numbers); the empty  *)
(* string is <<>>.  A Python dict is a function whose DOMAIN is its set of *)
(* keys.                                                                   *)
(***************************************************************************)
EXTENDS Integers, Sequences, FiniteSets, TLC

(***************************************************************************)
(* Code points.  The Hebrew block U+05D0..U+05EA holds the 22 letters and  *)
(* the 5 final forms, in alphabet order with each final before its base.   *)
(***************************************************************************)
Alef == 1488
Bet == 1489
Gimel == 1490
Dalet == 1491
He == 1492
Vav == 1493
Zayin == 1494
Chet == 1495
Tet == 1496
Yod == 1497
FinalKaf == 1498
Kaf == 1499
Lamed == 1500
FinalMem == 1501
Mem == 1502
FinalNun == 1503
Nun == 1504
Samekh == 1505
Ayin == 1506
FinalPe == 1507
Pe == 1508
FinalTsadi == 1509
Tsadi == 1510
Qof == 1511
Resh == 1512
Shin == 1513
Tav == 1514

\* U+0591, the first code point of the range remove_diacritics deletes
\* (the cantillation mark etnahta), and U+05C7, the last one.
DiacriticFirst == 1425
DiacriticLast == 1479
\* U+05B0, the vowel point sheva (inside the deleted range).
Sheva == 1456
\* U+05BE maqaf and U+05C3 sof pasuq (both inside the deleted range).
Maqaf == 1470
SofPasuq == 1475
\* U+0020 space and U+0031, the digit 1 (neither Hebrew nor a diacritic).
Space == 32
Digit1 == 49
\* U+2003 em space and U+3000 ideographic space, white space to \s and to
\* str.strip().
EmSpace == 8195
IdeographicSpace == 12288
\* The code points of '.' and '/'.
Dot == 46
Slash == 47
\* The first and last code points letters_only keeps.
LetterFirst == 1488
LetterLast == 1514

(***************************************************************************)
(* Python built-ins the source uses.                                       *)
(***************************************************************************)
EmptyDict == [k \in {} |-> 0]

\* d.get(k, default)
DictGet(d, k, default) == IF k \in DOMAIN d THEN d[k] ELSE default

\* d[k] = v
DictPut(d, k, v) == [x \in (DOMAIN d) \cup {k} |-> IF x = k THEN v ELSE d[x]]

\* seq[a:b] with 0-based, end-exclusive indices 0 <= a, clipped to the length
PySlice(seq, a, b) ==
  LET hi == IF b < Len(seq) THEN b ELSE Len(seq)
  IN  IF a >= hi THEN <<>> ELSE [i \in 1..(hi - a) |-> seq[a + i]]

\* seq[::-1] and reversed(seq)
PyReversed(seq) == [i \in 1..Len(seq) |-> seq[Len(seq) + 1 - i]]

\* len(zip(as, bs))
ZipLen(as, bs) == IF Len(as) < Len(bs) THEN Len(as) ELSE Len(bs)

\* sum(seq)
RECURSIVE PySum(_)
PySum(seq) == IF seq = <<>> THEN 0 ELSE Head(seq) + PySum(Tail(seq))

\* for a, b in zip(as, bs): d[a] = b
RECURSIVE ZipAssign(_, _, _, _)
ZipAssign(d, as, bs, i) ==
  IF i > ZipLen(as, bs) THEN d
  ELSE ZipAssign(DictPut(d, as[i], bs[i]), as, bs, i + 1)

\* for a, b in zip(as, bs): d[a] = b; d[b] = a
RECURSIVE ZipAssignBoth(_, _, _, _)
ZipAssignBoth(d, as, bs, i) ==
  IF i > ZipLen(as, bs) THEN d
  ELSE ZipAssignBoth(DictPut(DictPut(d, as[i], bs[i]), bs[i], as[i]), as, bs, i + 1)

(***************************************************************************)
(* torahcalc_methods.py: lookup tables.                                    *)
(***************************************************************************)
_HECHRACHI ==
  (Alef :> 1) @@ (Bet :> 2) @@ (Gimel :> 3) @@ (Dalet :> 4) @@ (He :> 5) @@
  (Vav :> 6) @@ (Zayin :> 7) @@ (Chet :> 8) @@ (Tet :> 9) @@
  (Yod :> 10) @@ (Kaf :> 20) @@ (FinalKaf :> 20) @@ (Lamed :> 30) @@
  (Mem :> 40) @@ (FinalMem :> 40) @@ (Nun :> 50) @@ (FinalNun :> 50) @@
  (Samekh :> 60) @@ (Ayin :> 70) @@ (Pe :> 80) @@ (FinalPe :> 80) @@
  (Tsadi :> 90) @@ (FinalTsadi :> 90) @@ (Qof :> 100) @@ (Resh :> 200) @@
  (Shin :> 300) @@ (Tav :> 400)

_GADOL ==
  (Alef :> 1) @@ (Bet :> 2) @@ (Gimel :> 3) @@ (Dalet :> 4) @@ (He :> 5) @@
  (Vav :> 6) @@ (Zayin :> 7) @@ (Chet :> 8) @@ (Tet :> 9) @@
  (Yod :> 10) @@ (Kaf :> 20) @@ (Lamed :> 30) @@ (Mem :> 40) @@ (Nun :> 50) @@
  (Samekh :> 60) @@ (Ayin :> 70) @@ (Pe :> 80) @@ (Tsadi :> 90) @@
  (Qof :> 100) @@ (Resh :> 200) @@ (Shin :> 300) @@ (Tav :> 400) @@
  (FinalKaf :> 500) @@ (FinalMem :> 600) @@ (FinalNun :> 700) @@
  (FinalPe :> 800) @@ (FinalTsadi :> 900)

_SIDURI ==
  (Alef :> 1) @@ (Bet :> 2) @@ (Gimel :> 3) @@ (Dalet :> 4) @@ (He :> 5) @@
  (Vav :> 6) @@ (Zayin :> 7) @@ (Chet :> 8) @@ (Tet :> 9) @@
  (Yod :> 10) @@ (Kaf :> 11) @@ (FinalKaf :> 11) @@ (Lamed :> 12) @@
  (Mem :> 13) @@ (FinalMem :> 13) @@ (Nun :> 14) @@ (FinalNun :> 14) @@
  (Samekh :> 15) @@ (Ayin :> 16) @@ (Pe :> 17) @@ (FinalPe :> 17) @@
  (Tsadi :> 18) @@ (FinalTsadi :> 18) @@ (Qof :> 19) @@ (Resh :> 20) @@
  (Shin :> 21) @@ (Tav :> 22)

_KATAN ==
  (Alef :> 1) @@ (Bet :> 2) @@ (Gimel :> 3) @@ (Dalet :> 4) @@ (He :> 5) @@
  (Vav :> 6) @@ (Zayin :> 7) @@ (Chet :> 8) @@ (Tet :> 9) @@
  (Yod :> 1) @@ (Kaf :> 2) @@ (FinalKaf :> 2) @@ (Lamed :> 3) @@
  (Mem :> 4) @@ (FinalMem :> 4) @@ (Nun :> 5) @@ (FinalNun :> 5) @@
  (Samekh :> 6) @@ (Ayin :> 7) @@ (Pe :> 8) @@ (FinalPe :> 8) @@
  (Tsadi :> 9) @@ (FinalTsadi :> 9) @@ (Qof :> 1) @@ (Resh :> 2) @@
  (Shin :> 3) @@ (Tav :> 4)

_MISPARI ==
  (Alef :> 13) @@ (Bet :> 760) @@ (Gimel :> 13) @@ (Dalet :> 434) @@
  (He :> 38) @@ (Vav :> 42) @@ (Zayin :> 67) @@ (Chet :> 68) @@ (Tet :> 419) @@
  (Yod :> 570) @@ (Kaf :> 100) @@ (FinalKaf :> 100) @@ (Lamed :> 74) @@
  (Mem :> 80) @@ (FinalMem :> 80) @@ (Nun :> 106) @@ (FinalNun :> 106) @@
  (Samekh :> 60) @@ (Ayin :> 130) @@ (Pe :> 81) @@ (FinalPe :> 81) @@
  (Tsadi :> 104) @@ (FinalTsadi :> 104) @@ (Qof :> 186) @@ (Resh :> 501) @@
  (Shin :> 1083) @@ (Tav :> 720)

DEFAULT_LETTER_NAMES ==
  (Alef :> <<Alef, Lamed, FinalPe>>) @@
  (Bet :> <<Bet, Yod, Tav>>) @@
  (Gimel :> <<Gimel, Yod, Mem, Lamed>>) @@
  (Dalet :> <<Dalet, Lamed, Tav>>) @@
  (He :> <<He, Alef>>) @@
  (Vav :> <<Vav, Vav>>) @@
  (Zayin :> <<Zayin, Yod, FinalNun>>) @@
  (Chet :> <<Chet, Yod, Tav>>) @@
  (Tet :> <<Tet, Yod, Tav>>) @@
  (Yod :> <<Yod, Vav, Dalet>>) @@
  (Kaf :> <<Kaf, FinalPe>>) @@ (FinalKaf :> <<Kaf, FinalPe>>) @@
  (Lamed :> <<Lamed, Mem, Dalet>>) @@
  (Mem :> <<Mem, FinalMem>>) @@ (FinalMem :> <<Mem, FinalMem>>) @@
  (Nun :> <<Nun, Vav, FinalNun>>) @@ (FinalNun :> <<Nun, Vav, FinalNun>>) @@
  (Samekh :> <<Samekh, Mem, FinalKaf>>) @@
  (Ayin :> <<Ayin, Yod, FinalNun>>) @@
  (Pe :> <<Pe, Alef>>) @@ (FinalPe :> <<Pe, Alef>>) @@
  (Tsadi :> <<Tsadi, Dalet, Yod>>) @@ (FinalTsadi :> <<Tsadi, Dalet, Yod>>) @@
  (Qof :> <<Qof, Vav, FinalPe>>) @@
  (Resh :> <<Resh, Yod, Shin>>) @@
  (Shin :> <<Shin, FinalNun>>) @@
  (Tav :> <<Tav, Vav>>)

_ORDERED_LETTERS ==
  <<Alef, Bet, Gimel, Dalet, He, Vav, Zayin, Chet, Tet, Yod, Kaf, Lamed, Mem,
    Nun, Samekh, Ayin, Pe, Tsadi, Qof, Resh, Shin, Tav>>

\* for ch in _ORDERED_LETTERS: _running += _HECHRACHI[ch]; _CUM_SUM_HECHRACHI[ch] = _running
RECURSIVE CumSumLoop(_, _, _)
CumSumLoop(d, _running, i) ==
  IF i > Len(_ORDERED_LETTERS) THEN d
  ELSE LET ch == _ORDERED_LETTERS[i]
           r == _running + _HECHRACHI[ch]
       IN  CumSumLoop(DictPut(d, ch, r), r, i + 1)

_CUM_SUM_HECHRACHI == CumSumLoop(EmptyDict, 0, 1)

_strip_non_hebrew(s) == SelectSeq(s, LAMBDA c : c \in DOMAIN _HECHRACHI)

_apply_table(s, table) == PySum([i \in 1..Len(s) |-> DictGet(table, s[i], 0)])

(***************************************************************************)
(* torahcalc_methods.py: the methods that sum a table or a function of it. *)
(***************************************************************************)
mispar_hechrachi(s) == _apply_table(_strip_non_hebrew(s), _HECHRACHI)

mispar_gadol(s) == _apply_table(_strip_non_hebrew(s), _GADOL)

mispar_siduri(s) == _apply_table(_strip_non_hebrew(s), _SIDURI)

mispar_katan(s) == _apply_table(_strip_non_hebrew(s), _KATAN)

mispar_perati(s) ==
  LET t == _strip_non_hebrew(s)
  IN  PySum([i \in 1..Len(t) |-> _HECHRACHI[t[i]] * _HECHRACHI[t[i]]])

mispar_meshulash(s) ==
  LET t == _strip_non_hebrew(s)
  IN  PySum([i \in 1..Len(t) |->
              _HECHRACHI[t[i]] * _HECHRACHI[t[i]] * _HECHRACHI[t[i]]])

\* The if/elif chain that maps a final form to its base letter; it is
\* written out in mispar_kidmi and again in _transform.
FinalToBase(c) ==
  CASE c \in {FinalKaf, Kaf} -> Kaf
    [] c \in {FinalMem, Mem} -> Mem
    [] c \in {FinalNun, Nun} -> Nun
    [] c \in {FinalPe, Pe} -> Pe
    [] c \in {FinalTsadi, Tsadi} -> Tsadi
    [] OTHER -> c

mispar_kidmi(s) ==
  LET t == _strip_non_hebrew(s)
  IN  PySum([i \in 1..Len(t) |-> DictGet(_CUM_SUM_HECHRACHI, FinalToBase(t[i]), 0)])

\* The loop of mispar_boneh from letter i on, with the locals running and total.
RECURSIVE BonehLoop(_, _, _, _)
BonehLoop(t, i, running, total) ==
  IF i > Len(t) THEN total
  ELSE LET r == running + DictGet(_HECHRACHI, t[i], 0)
       IN  BonehLoop(t, i + 1, r, total + r)

mispar_boneh(s) == BonehLoop(_strip_non_hebrew(s), 1, 0, 0)

mispar_mispari(s) == _apply_table(_strip_non_hebrew(s), _MISPARI)

(***************************************************************************)
(* torahcalc_methods.py: the substitution maps, built as the module builds *)
(* them when it is imported.                                               *)
(***************************************************************************)
_ATBASH_MAP ==
  ZipAssignBoth(EmptyDict, _ORDERED_LETTERS, PyReversed(_ORDERED_LETTERS), 1)

_ALBAM_MAP ==
  ZipAssignBoth(EmptyDict, PySlice(_ORDERED_LETTERS, 0, 11),
                PySlice(_ORDERED_LETTERS, 11, 22), 1)

first_half == PySlice(_ORDERED_LETTERS, 0, 11)

second_half == PySlice(_ORDERED_LETTERS, 11, Len(_ORDERED_LETTERS))

_ACHBI_MAP ==
  ZipAssign(ZipAssign(EmptyDict, first_half, PyReversed(first_half), 1),
            second_half, PyReversed(second_half), 1)

_ATBACH_SEQ ==
  <<Alef, Bet, Gimel, Dalet, He, Vav, Zayin, Chet, Tet,
    Yod, Kaf, Lamed, Mem, Nun, Samekh, Ayin, Pe, Tsadi,
    Qof, Resh, Shin, Tav, FinalKaf, FinalMem, FinalNun, FinalPe, FinalTsadi>>

\* groups = [_ATBACH_SEQ[i:i+9] for i in range(0, 27, 9)]
groups == [g \in 1..3 |-> PySlice(_ATBACH_SEQ, 9 * (g - 1), 9 * g)]

\* for i in range(0, 27, 9): group = ...; for j, a in enumerate(group): map[a] = group[::-1][j]
RECURSIVE AtbachLoop(_, _)
AtbachLoop(d, g) ==
  IF g > 3 THEN d
  ELSE AtbachLoop(ZipAssign(d, groups[g], PyReversed(groups[g]), 1), g + 1)

_ATBACH_MAP == AtbachLoop(EmptyDict, 1)

\* for idx, group in enumerate(groups): next_group = groups[(idx + 1) % len(groups)]; zip
RECURSIVE AyakLoop(_, _)
AyakLoop(d, idx) ==
  IF idx >= Len(groups) THEN d
  ELSE AyakLoop(ZipAssign(d, groups[idx + 1], groups[((idx + 1) % Len(groups)) + 1], 1),
                idx + 1)

_AYAK_MAP == AyakLoop(EmptyDict, 0)

_ACHAS_SEQ ==
  <<Alef, Bet, Gimel, Dalet, He, Vav, Zayin,
    Chet, Tet, Yod, Kaf, Lamed, Mem, Nun,
    Samekh, Ayin, Pe, Tsadi, Qof, Resh, Shin, Tav>>

g1 == PySlice(_ACHAS_SEQ, 0, 7)

g2 == PySlice(_ACHAS_SEQ, 7, 14)

g3 == PySlice(_ACHAS_SEQ, 14, Len(_ACHAS_SEQ))

_ACHAS_BETA_MAP ==
  ZipAssign(ZipAssign(ZipAssign(EmptyDict, g1, g2, 1), g2, g3, 1), g3, g1, 1)

\* A shift that stops at the last letter instead of wrapping to the first.
AvgadTargetClamped(i) ==
  _ORDERED_LETTERS[(IF i + 1 < Len(_ORDERED_LETTERS) THEN i + 1 ELSE i) + 1]

\* b = _ORDERED_LETTERS[(i + 1) % len(_ORDERED_LETTERS)], i counted from 0
AvgadTarget(i) == _ORDERED_LETTERS[((i + 1) % Len(_ORDERED_LETTERS)) + 1]

\* for i, a in enumerate(_ORDERED_LETTERS): _AVGAD_MAP[a] = b; _REV_AVGAD_MAP[b] = a
RECURSIVE AvgadLoop(_, _)
AvgadLoop(maps, i) ==
  IF i >= Len(_ORDERED_LETTERS) THEN maps
  ELSE LET a == _ORDERED_LETTERS[i + 1]
           b == AvgadTarget(i)
       IN  AvgadLoop([fwd |-> DictPut(maps.fwd, a, b),
                      rev |-> DictPut(maps.rev, b, a)], i + 1)

_AVGAD_MAP == AvgadLoop([fwd |-> EmptyDict, rev |-> EmptyDict], 0).fwd

_REV_AVGAD_MAP == AvgadLoop([fwd |-> EmptyDict, rev |-> EmptyDict], 0).rev

_transform(s, mapping) ==
  [i \in 1..Len(s) |-> LET base == FinalToBase(s[i])
                       IN  DictGet(mapping, base, base)]

(***************************************************************************)
(* torahcalc_methods.py: cipher-then-score methods.                        *)
(***************************************************************************)
atbash_value(s) == mispar_hechrachi(_transform(_strip_non_hebrew(s), _ATBASH_MAP))

albam_value(s) == mispar_hechrachi(_transform(_strip_non_hebrew(s), _ALBAM_MAP))

achbi_value(s) == mispar_hechrachi(_transform(_strip_non_hebrew(s), _ACHBI_MAP))

\* AtBach scored with the standard table, as the other ciphers are.
atbach_value_hechrachi(s) ==
  mispar_hechrachi(_transform(_strip_non_hebrew(s), _ATBACH_MAP))

atbach_value(s) == mispar_gadol(_transform(_strip_non_hebrew(s), _ATBACH_MAP))

ayak_bachar_value(s) == mispar_gadol(_transform(_strip_non_hebrew(s), _AYAK_MAP))

achas_beta_value(s) ==
  mispar_hechrachi(_transform(_strip_non_hebrew(s), _ACHAS_BETA_MAP))

avgad_value(s) == mispar_hechrachi(_transform(_strip_non_hebrew(s), _AVGAD_MAP))

reverse_avgad_value(s) ==
  mispar_hechrachi(_transform(_strip_non_hebrew(s), _REV_AVGAD_MAP))

(***************************************************************************)
(* torahcalc_methods.py: the methods that read a letter-name table.  The   *)
(* optional argument is [none |-> TRUE] when the caller passes nothing (or *)
(* None) and [none |-> FALSE, table |-> d] when the caller passes dict d.  *)
(***************************************************************************)
NoTable == [none |-> TRUE]

Table(d) == [none |-> FALSE, table |-> d]

\* "if not letter_names" in place of "if letter_names is None": an empty
\* table is replaced by the default one.
mispar_shemi_falsy(s, letter_names) ==
  LET names == IF letter_names.none \/ DOMAIN letter_names.table = {}
               THEN DEFAULT_LETTER_NAMES ELSE letter_names.table
      t == _strip_non_hebrew(s)
  IN  PySum([i \in 1..Len(t) |-> mispar_hechrachi(DictGet(names, t[i], <<>>))])

mispar_shemi(s, letter_names) ==
  LET names == IF letter_names.none THEN DEFAULT_LETTER_NAMES ELSE letter_names.table
      t == _strip_non_hebrew(s)
  IN  PySum([i \in 1..Len(t) |-> mispar_hechrachi(DictGet(names, t[i], <<>>))])

mispar_neelam(s, letter_names) ==
  LET names == IF letter_names.none THEN DEFAULT_LETTER_NAMES ELSE letter_names.table
      t == _strip_non_hebrew(s)
      hidden(name) == IF Len(name) > 1 THEN PySlice(name, 1, Len(name)) ELSE <<>>
  IN  PySum([i \in 1..Len(t) |->
              mispar_hechrachi(hidden(DictGet(names, t[i], <<>>)))])

ofanim_value(s, letter_names) ==
  LET names == IF letter_names.none THEN DEFAULT_LETTER_NAMES ELSE letter_names.table
      t == _strip_non_hebrew(s)
      last(name) == IF name # <<>> THEN mispar_hechrachi(<<name[Len(name)]>>) ELSE 0
  IN  PySum([i \in 1..Len(t) |-> last(DictGet(names, t[i], <<>>))])

\* The keys of ADDITIVE_METHODS, in the order the dict literal gives them.
ADDITIVE_METHODS ==
  <<"hechrachi", "gadol", "siduri", "katan", "perati", "meshulash", "kidmi",
    "boneh", "mispari", "shemi", "neelam", "ofanim", "atbash", "albam",
    "achbi", "atbach", "ayak_bachar", "achas_beta", "avgad", "reverse_avgad">>

MethodNames == {ADDITIVE_METHODS[i] : i \in 1..Len(ADDITIVE_METHODS)}

\* The three methods that take a letter-name table.
NameMethods == {"shemi", "neelam", "ofanim"}

\* ADDITIVE_METHODS[method_name](s, letter_names); a method outside
\* NameMethods takes the string alone.
CallMethod(method_name, s, letter_names) ==
  CASE method_name = "hechrachi" -> mispar_hechrachi(s)
    [] method_name = "gadol" -> mispar_gadol(s)
    [] method_name = "siduri" -> mispar_siduri(s)
    [] method_name = "katan" -> mispar_katan(s)
    [] method_name = "perati" -> mispar_perati(s)
    [] method_name = "meshulash" -> mispar_meshulash(s)
    [] method_name = "kidmi" -> mispar_kidmi(s)
    [] method_name = "boneh" -> mispar_boneh(s)
    [] method_name = "mispari" -> mispar_mispari(s)
    [] method_name = "shemi" -> mispar_shemi(s, letter_names)
    [] method_name = "neelam" -> mispar_neelam(s, letter_names)
    [] method_name = "ofanim" -> ofanim_value(s, letter_names)
    [] method_name = "atbash" -> atbash_value(s)
    [] method_name = "albam" -> albam_value(s)
    [] method_name = "achbi" -> achbi_value(s)
    [] method_name = "atbach" -> atbach_value(s)
    [] method_name = "ayak_bachar" -> ayak_bachar_value(s)
    [] method_name = "achas_beta" -> achas_beta_value(s)
    [] method_name = "avgad" -> avgad_value(s)
    [] method_name = "reverse_avgad" -> reverse_avgad_value(s)

(***************************************************************************)
(* precompute_tanakh.py: text normalisation.                               *)
(***************************************************************************)
\* The white space of str.strip() and of the regular expression class \s on
\* a str: the 29 code points for which str.isspace() holds.
IsSpace(c) ==
  c \in {9, 10, 11, 12, 13, 28, 29, 30, 31, Space, 133, 160, 5760, 8232, 8233,
         8239, 8287, 12288} \cup (8192..8202)

remove_diacritics(s) ==
  SelectSeq(s, LAMBDA c : ~(DiacriticFirst <= c /\ c <= DiacriticLast))

letters_only(s) == SelectSeq(s, LAMBDA c : LetterFirst <= c /\ c <= LetterLast)

\* s.lstrip() and s.strip()
RECURSIVE PyLStrip(_)
PyLStrip(s) == IF s # <<>> /\ IsSpace(Head(s)) THEN PyLStrip(Tail(s)) ELSE s

PyStrip(s) == PyReversed(PyLStrip(PyReversed(PyLStrip(s))))

\* re.split(r'[\s\u05be]+', s): the fragments between the maximal runs of
\* separators, the empty ones included.  cur is the fragment being read and
\* out the fragments already closed.
IsSeparator(c) == IsSpace(c) \/ c = Maqaf

RECURSIVE ReSplitLoop(_, _, _, _)
ReSplitLoop(s, i, cur, out) ==
  IF i > Len(s) THEN Append(out, cur)
  ELSE IF IsSeparator(s[i])
       THEN IF i > 1 /\ IsSeparator(s[i - 1])
            THEN ReSplitLoop(s, i + 1, cur, out)
            ELSE ReSplitLoop(s, i + 1, <<>>, Append(out, cur))
       ELSE ReSplitLoop(s, i + 1, Append(cur, s[i]), out)

ReSplit(s) == ReSplitLoop(s, 1, <<>>, <<>>)

tokenize(verse) ==
  LET v == SelectSeq(verse, LAMBDA c : c # SofPasuq)
      words == ReSplit(PyStrip(v))
  IN  SelectSeq(words, LAMBDA w : w # <<>>)

(***************************************************************************)
(* precompute_tanakh.py: the record of one verse (the body of the verse    *)
(* loop of precompute_book).                                               *)
(***************************************************************************)
\* The totals of the verse before carried into this one.
CarriedTokenTotals(previous) == previous

\* token_totals = {method: 0 for method in ADDITIVE_METHODS.keys()}; the
\* argument is the value the variable held before the assignment.
NewTokenTotals(previous) == [m \in MethodNames |-> 0]

\* The body of "for tok in tokens" up to the append: the entry of one token.
TokenEntry(tok) ==
  LET letters_tok == letters_only(tok)
      values == [m \in MethodNames |->
                   IF m \in NameMethods
                   THEN CallMethod(m, letters_tok, Table(DEFAULT_LETTER_NAMES))
                   ELSE CallMethod(m, letters_tok, NoTable)]
  IN  [t |-> letters_tok, v |-> values]

\* for tok in tokens: ...; the locals token_entries and token_totals.
RECURSIVE TokenLoop(_, _, _, _)
TokenLoop(tokens, i, token_entries, token_totals) ==
  IF i > Len(tokens)
  THEN [token_entries |-> token_entries, token_totals |-> token_totals]
  ELSE LET e == TokenEntry(tokens[i])
       IN  TokenLoop(tokens, i + 1, Append(token_entries, e),
                     [m \in MethodNames |-> token_totals[m] + e.v[m]])

\* chapter_data[verse_key] for one verse; previous is token_totals as the
\* verse before left it.
VerseRecord(verse, previous) ==
  LET original == verse
      cleaned == remove_diacritics(verse)
      letters == letters_only(cleaned)
      tokens == tokenize(cleaned)
      done == TokenLoop(tokens, 1, <<>>, NewTokenTotals(previous))
  IN  [text |-> original,
       text_letters |-> letters,
       tokens |-> [i \in 1..Len(done.token_entries) |-> done.token_entries[i].t],
       values |-> [sum_of_tokens |-> done.token_totals,
                   tokens |-> done.token_entries]]

\* What json.dump writes for {title: {str(chapter_idx): chapter_data}}, as
\* the sequence of pieces it hands to the file one after the other: the
\* opening of the two outer objects, one piece per verse, the closing.
Serialize(title, chapter_idx, chapter_data) ==
  <<[kind |-> "open", key |-> <<title, chapter_idx>>, body |-> <<>>]>>
  \o [i \in 1..Len(chapter_data) |->
        [kind |-> "verse", key |-> <<i>>, body |-> <<chapter_data[i]>>]]
  \o <<[kind |-> "close", key |-> <<>>, body |-> <<>>]>>

\* The with statement's exit: the file is closed whether the block ended
\* normally or by an exception.
WithExitNoFinally(handles_, h, raised) == IF raised THEN handles_ ELSE handles_ \ {h}

WithExit(handles_, h, raised) == handles_ \ {h}

(***************************************************************************)
(* Bounds and input sets.                                                  *)
(***************************************************************************)
\* The longest listing of the input directory.
MaxFiles == 3
\* The most verses in the chapter whose content is left open.
MaxVerses == 2
\* The longest input string of a method call.
MaxLen == 3
\* The most substitutions applied one after the other to one string, and
\* the longest string they are applied to (the reference word apart).
MaxRounds == 2
MaxCipherLen == 2

\* Sequences over S of length at most n.
SeqsUpTo(S, n) == UNION {[1..k -> S] : k \in 0..n}

\* A JSON value as json.load returns it: a str, a list or (for a missing
\* key, from dict.get) None.
JStr(s) == [type |-> "str", value |-> s]

JList(l) == [type |-> "list", value |-> l]

\* Verses: letters closed by sof pasuq, two letter runs joined by a maqaf,
\* white space and a cantillation mark only, a digit between two words, a
\* word with a vowel point, two letters parted by an em space (U+2003) and
\* followed by an ideographic space (U+3000).
VersePlain == <<Bet, Resh, Space, Alef, SofPasuq>>

VerseMaqaf == <<Alef, Lamed, Maqaf, Bet>>

VerseBlank == <<Space, DiacriticFirst, Space>>

VerseDigit == <<Alef, Space, Digit1, Space, FinalKaf>>

VersePointed == <<Bet, Sheva, Resh>>

VerseWide == <<Alef, EmSpace, Bet, IdeographicSpace>>

SampleVerses ==
  {VersePlain, VerseMaqaf, VerseBlank, VerseDigit, VersePointed, VerseWide}

\* The files an input directory may hold.  A name is a str like any other,
\* the sequence of its code points; a content says whether json.load parses
\* it and, when it does, the "title" key (if present) and the "text" value.
\* "genesis.json"
GenesisName == <<103, 101, 110, 101, 115, 105, 115, 46, 106, 115, 111, 110>>

\* "exodus.v2.JSON"
ExodusName == <<101, 120, 111, 100, 117, 115, 46, 118, 50, 46, 74, 83, 79, 78>>

\* "bad.Json"
BadName == <<98, 97, 100, 46, 74, 115, 111, 110>>

\* "corrupt.json"
CorruptName == <<99, 111, 114, 114, 117, 112, 116, 46, 106, 115, 111, 110>>

\* "notes.txt"
NotesName == <<110, 111, 116, 101, 115, 46, 116, 120, 116>>

\* The titles "Genesis" and "Bad".
GenesisTitle == <<71, 101, 110, 101, 115, 105, 115>>

BadTitle == <<66, 97, 100>>

FileNames == {GenesisName, ExodusName, BadName, CorruptName, NotesName}

\* The contents of the files when the one chapter of Genesis is ch.
Contents(ch) ==
  [n \in FileNames |->
     CASE n = GenesisName ->
            [parses |-> TRUE, has_title |-> TRUE, title |-> GenesisTitle,
             text |-> JList(<<ch>>)]
       [] n = ExodusName ->
            [parses |-> TRUE, has_title |-> FALSE, title |-> <<>>,
             text |-> JList(<<<<VersePointed, VerseBlank>>, <<VerseMaqaf>>>>)]
       [] n = BadName ->
            [parses |-> TRUE, has_title |-> TRUE, title |-> BadTitle,
             text |-> JStr(VersePlain)]
       [] n = CorruptName ->
            [parses |-> FALSE, has_title |-> FALSE, title |-> <<>>,
             text |-> JStr(<<>>)]
       [] n = NotesName ->
            [parses |-> FALSE, has_title |-> FALSE, title |-> <<>>,
             text |-> JStr(<<>>)]]

\* The orders in which os.listdir may return at most MaxFiles of the files.
Listings ==
  {l \in SeqsUpTo(FileNames, MaxFiles) :
     l # <<>> /\ \A i, j \in 1..Len(l) : i # j => l[i] # l[j]}

\* The letters of the input strings of the method calls, with a digit and a
\* vowel point among them.
SmallAlphabet == {Alef, Bet, FinalKaf, Kaf, Shin, Tav, Digit1, Sheva}

HebrewLetters == LetterFirst..LetterLast

BaseLetters == {_ORDERED_LETTERS[i] : i \in 1..Len(_ORDERED_LETTERS)}

Bereshit == <<Bet, Resh, Alef, Shin, Yod, Tav>>

InputWords ==
  SeqsUpTo(SmallAlphabet, MaxLen) \cup {<<c>> : c \in HebrewLetters} \cup {Bereshit}

\* The letter-name tables a caller passes: none, the default one, and every
\* table over some of two letters with an empty, a one-letter, a two-letter
\* or a three-letter name.
SmallNames == {<<>>, <<Bet>>, <<He, Yod>>, <<Alef, Lamed, FinalPe>>}

SmallTables == UNION {[K -> SmallNames] : K \in SUBSET {Alef, Bet}}

NameArgs == {NoTable, Table(DEFAULT_LETTER_NAMES)} \cup {Table(d) : d \in SmallTables}

CipherNames ==
  {"atbash", "albam", "achbi", "atbach", "ayak_bachar", "achas_beta", "avgad",
   "reverse_avgad"}

\* The map each cipher method hands to _transform.
CipherMap(c) ==
  CASE c = "atbash" -> _ATBASH_MAP
    [] c = "albam" -> _ALBAM_MAP
    [] c = "achbi" -> _ACHBI_MAP
    [] c = "atbach" -> _ATBACH_MAP
    [] c = "ayak_bachar" -> _AYAK_MAP
    [] c = "achas_beta" -> _ACHAS_BETA_MAP
    [] c = "avgad" -> _AVGAD_MAP
    [] c = "reverse_avgad" -> _REV_AVGAD_MAP

(***************************************************************************)
(* State.                                                                  *)
(***************************************************************************)
VARIABLES
  \* A run of main():
  mode,          \* "dir" for --input-dir, "file" for --input-file
  listing,       \* what os.listdir returned (one name with --input-file)
  source,        \* the content of each input file
  fileIdx,       \* the position of main's loop in listing
  pc,            \* where the run stands
  exc,           \* the exception that ended the run, or "none"
  handles,       \* the open file handles: <<mode, file or directory, chapter>>
  dirs,          \* the book directories os.makedirs has made
  disk,          \* the chapter files: <<title, chapter>> to the pieces written
  data,          \* precompute_book's data, the parsed source file
  title,         \* precompute_book's title
  chapter_idx,   \* precompute_book's chapter_idx
  verse_idx,     \* precompute_book's verse_idx
  chapter_data,  \* precompute_book's chapter_data: verse records, by verse
  token_totals,  \* precompute_book's token_totals
  \* A call of one method, and substitutions applied one after the other:
  phase,         \* "input", "called", "split" or "ciphered"
  word,          \* the input string
  method,        \* the method called
  letter_names,  \* the letter-name table passed to it
  result,        \* what the call returned
  split,         \* where word was cut in two
  parts,         \* what the method returned for the two pieces
  applied,       \* the ciphers applied so far
  ciphered       \* the string after them

buildVars ==
  <<mode, listing, source, fileIdx, pc, exc, handles, dirs, disk, data, title,
    chapter_idx, verse_idx, chapter_data, token_totals>>

methodVars ==
  <<phase, word, method, letter_names, result, split, parts, applied, ciphered>>

vars == <<buildVars, methodVars>>

NoData ==
  [parses |-> FALSE, has_title |-> FALSE, title |-> <<>>, text |-> JStr(<<>>)]

\* The state of a run of main() before its first step.
BuildStart ==
  /\ fileIdx = 1
  /\ pc = "main"
  /\ exc = "none"
  /\ handles = {}
  /\ dirs = {}
  /\ disk = EmptyDict
  /\ data = NoData
  /\ title = <<>>
  /\ chapter_idx = 0
  /\ verse_idx = 0
  /\ chapter_data = <<>>
  /\ token_totals = [m \in MethodNames |-> 0]

\* No method call under way.
MethodIdle ==
  /\ phase = "idle"
  /\ word = <<>>
  /\ method = "none"
  /\ letter_names = NoTable
  /\ result = 0
  /\ split = 0
  /\ parts = <<0, 0>>
  /\ applied = <<>>
  /\ ciphered = <<>>

\* main() started on a directory (every order of every choice of files) or
\* on a single file.
Init ==
  /\ \/ mode = "dir" /\ listing \in Listings
     \/ mode = "file" /\ \E n \in FileNames : listing = <<n>>
  /\ \E ch \in SeqsUpTo(SampleVerses, MaxVerses) :
       /\ source = Contents(ch)
       \* the content of a file that is not read makes no difference
       /\ (\A i \in 1..Len(listing) : listing[i] # GenesisName) => ch = <<>>
  /\ BuildStart
  /\ MethodIdle

(***************************************************************************)
(* main() and precompute_book().                                           *)
(***************************************************************************)
\* fname.lower().endswith('.json'): the last five code points of fname are
\* '.' and then j, s, o, n in either case.  No other code point has any of
\* these five in its lower-case form, so nothing else lower-cases to the
\* suffix.
EndsWithJson(fname) ==
  LET n == Len(fname)
  IN  /\ n >= 5
      /\ fname[n - 4] = Dot
      /\ fname[n - 3] \in {106, 74}
      /\ fname[n - 2] \in {115, 83}
      /\ fname[n - 1] \in {111, 79}
      /\ fname[n] \in {110, 78}

\* os.path.basename(path): what follows the last '/'.
RECURSIVE PyBasename(_)
PyBasename(path) ==
  IF \E i \in 1..Len(path) : path[i] = Slash THEN PyBasename(Tail(path)) ELSE path

\* s.split('.')[0]: what precedes the first '.'.
RECURSIVE SplitDotFirst(_)
SplitDotFirst(s) ==
  IF s = <<>> \/ Head(s) = Dot THEN <<>> ELSE <<Head(s)>> \o SplitDotFirst(Tail(s))

\* The file main's loop stands at.
CurrentFile == listing[fileIdx]

SourceHandle == <<"r", CurrentFile, 0>>

OutPath == <<title, chapter_idx>>

OutHandle == <<"w", title, chapter_idx>>

\* text, once the structural check has passed.
Text == data.text.value

\* main: a directory entry that is no .json file is passed over.
MainSkip ==
  /\ pc = "main" /\ mode = "dir" /\ fileIdx <= Len(listing)
  /\ ~EndsWithJson(CurrentFile)
  /\ fileIdx' = fileIdx + 1
  /\ UNCHANGED <<mode, listing, source, pc, exc, handles, dirs, disk, data, title,
                 chapter_idx, verse_idx, chapter_data, token_totals>>
  /\ UNCHANGED methodVars

\* main: precompute_book is called on the next .json file of the directory,
\* or on the file --input-file names.
MainCall ==
  /\ pc = "main" /\ fileIdx <= Len(listing)
  /\ mode = "file" \/ EndsWithJson(CurrentFile)
  /\ pc' = "open"
  /\ UNCHANGED <<mode, listing, source, fileIdx, exc, handles, dirs, disk, data,
                 title, chapter_idx, verse_idx, chapter_data, token_totals>>
  /\ UNCHANGED methodVars

\* main: the loop is over and main returns.
MainReturn ==
  /\ pc = "main" /\ fileIdx > Len(listing)
  /\ pc' = "done"
  /\ UNCHANGED <<mode, listing, source, fileIdx, exc, handles, dirs, disk, data,
                 title, chapter_idx, verse_idx, chapter_data, token_totals>>
  /\ UNCHANGED methodVars

\* precompute_book: with open(book_json_path, 'r') as f
OpenSource ==
  /\ pc = "open"
  /\ handles' = handles \cup {SourceHandle}
  /\ pc' = "load"
  /\ UNCHANGED <<mode, listing, source, fileIdx, exc, dirs, disk, data, title,
                 chapter_idx, verse_idx, chapter_data, token_totals>>
  /\ UNCHANGED methodVars

\* precompute_book: data = json.load(f), and the with block is left.
LoadSource ==
  /\ pc = "load" /\ source[CurrentFile].parses
  /\ data' = source[CurrentFile]
  /\ handles' = WithExit(handles, SourceHandle, FALSE)
  /\ pc' = "check"
  /\ UNCHANGED <<mode, listing, source, fileIdx, exc, dirs, disk, title,
                 chapter_idx, verse_idx, chapter_data, token_totals>>
  /\ UNCHANGED methodVars

\* precompute_book: json.load raises on a file that is not JSON; the with
\* block is left by the exception, which nothing catches: main ends.
LoadRaises ==
  /\ pc = "load" /\ ~source[CurrentFile].parses
  /\ handles' = WithExit(handles, SourceHandle, TRUE)
  /\ exc' = "JSONDecodeError"
  /\ pc' = "raised"
  /\ UNCHANGED <<mode, listing, source, fileIdx, dirs, disk, data, title,
                 chapter_idx, verse_idx, chapter_data, token_totals>>
  /\ UNCHANGED methodVars

\* data.get('title', os.path.basename(book_json_path).split('.')[0])
TitleOf(d, book_json_path) ==
  IF d.has_title THEN d.title ELSE SplitDotFirst(PyBasename(book_json_path))

\* precompute_book: 'text' is no list: ValueError, which nothing catches.
CheckRaises ==
  /\ pc = "check" /\ data.text.type # "list"
  /\ title' = TitleOf(data, CurrentFile)
  /\ exc' = "ValueError"
  /\ pc' = "raised"
  /\ UNCHANGED <<mode, listing, source, fileIdx, handles, dirs, disk, data,
                 chapter_idx, verse_idx, chapter_data, token_totals>>
  /\ UNCHANGED methodVars

\* precompute_book: 'text' is a list: the book directory is made and the
\* chapter loop starts.
CheckPasses ==
  /\ pc = "check" /\ data.text.type = "list"
  /\ title' = TitleOf(data, CurrentFile)
  /\ dirs' = dirs \cup {title'}
  /\ chapter_idx' = 1
  /\ pc' = "chapter"
  /\ UNCHANGED <<mode, listing, source, fileIdx, exc, handles, disk, data,
                 verse_idx, chapter_data, token_totals>>
  /\ UNCHANGED methodVars

\* precompute_book: the next chapter: chapter_data = {}
NextChapter ==
  /\ pc = "chapter" /\ chapter_idx <= Len(Text)
  /\ chapter_data' = <<>>
  /\ verse_idx' = 1
  /\ pc' = "verse"
  /\ UNCHANGED <<mode, listing, source, fileIdx, exc, handles, dirs, disk, data,
                 title, chapter_idx, token_totals>>
  /\ UNCHANGED methodVars

\* precompute_book: no chapter is left: it returns to main's loop.
BookReturns ==
  /\ pc = "chapter" /\ chapter_idx > Len(Text)
  /\ fileIdx' = fileIdx + 1
  /\ pc' = "main"
  /\ UNCHANGED <<mode, listing, source, exc, handles, dirs, disk, data, title,
                 chapter_idx, verse_idx, chapter_data, token_totals>>
  /\ UNCHANGED methodVars

\* precompute_book: the body of the verse loop for the next verse.
ProcessVerse ==
  /\ pc = "verse" /\ verse_idx <= Len(Text[chapter_idx])
  /\ LET rec == VerseRecord(Text[chapter_idx][verse_idx], token_totals)
     IN  /\ token_totals' = rec.values.sum_of_tokens
         /\ chapter_data' = Append(chapter_data, rec)
  /\ verse_idx' = verse_idx + 1
  /\ UNCHANGED <<mode, listing, source, fileIdx, pc, exc, handles, dirs, disk,
                 data, title, chapter_idx>>
  /\ UNCHANGED methodVars

\* precompute_book: with open(out_path, 'w') as f_out: the file is made, or
\* emptied if it was there.
OpenOut ==
  /\ pc = "verse" /\ verse_idx > Len(Text[chapter_idx])
  /\ disk' = DictPut(disk, OutPath, <<>>)
  /\ handles' = handles \cup {OutHandle}
  /\ pc' = "dump"
  /\ UNCHANGED <<mode, listing, source, fileIdx, exc, dirs, data, title,
                 chapter_idx, verse_idx, chapter_data, token_totals>>
  /\ UNCHANGED methodVars

\* precompute_book: json.dump writes its next piece.
DumpPiece ==
  /\ pc = "dump"
  /\ Len(disk[OutPath]) < Len(Serialize(title, chapter_idx, chapter_data))
  /\ disk' = DictPut(disk, OutPath,
                     Append(disk[OutPath],
                            Serialize(title, chapter_idx, chapter_data)[Len(disk[OutPath]) + 1]))
  /\ UNCHANGED <<mode, listing, source, fileIdx, pc, exc, handles, dirs, data,
                 title, chapter_idx, verse_idx, chapter_data, token_totals>>
  /\ UNCHANGED methodVars

\* precompute_book: a write of json.dump fails (the disk is full, say): the
\* with block is left by OSError, which nothing catches.
DumpRaises ==
  /\ pc = "dump"
  /\ Len(disk[OutPath]) < Len(Serialize(title, chapter_idx, chapter_data))
  /\ handles' = WithExit(handles, OutHandle, TRUE)
  /\ exc' = "OSError"
  /\ pc' = "raised"
  /\ UNCHANGED <<mode, listing, source, fileIdx, dirs, disk, data, title,
                 chapter_idx, verse_idx, chapter_data, token_totals>>
  /\ UNCHANGED methodVars

\* precompute_book: json.dump is done: the with block is left, the path is
\* printed and the chapter loop goes on.
CloseOut ==
  /\ pc = "dump"
  /\ Len(disk[OutPath]) = Len(Serialize(title, chapter_idx, chapter_data))
  /\ handles' = WithExit(handles, OutHandle, FALSE)
  /\ chapter_idx' = chapter_idx + 1
  /\ pc' = "chapter"
  /\ UNCHANGED <<mode, listing, source, fileIdx, exc, dirs, disk, data, title,
                 verse_idx, chapter_data, token_totals>>
  /\ UNCHANGED methodVars

Next ==
  \/ MainSkip
  \/ MainCall
  \/ MainReturn
  \/ OpenSource
  \/ LoadSource
  \/ LoadRaises
  \/ CheckRaises
  \/ CheckPasses
  \/ NextChapter
  \/ BookReturns
  \/ ProcessVerse
  \/ OpenOut
  \/ DumpPiece
  \/ DumpRaises
  \/ CloseOut

Spec == Init /\ [][Next]_vars

(***************************************************************************)
(* Calls of the methods of torahcalc_methods.py on their own: one method   *)
(* on one input string, then on the two pieces of the string; and the      *)
(* substitution of the cipher methods, applied up to MaxRounds times.      *)
(***************************************************************************)
\* No run of main() under way.
BuildIdle ==
  /\ mode = "none"
  /\ listing = <<>>
  /\ source = Contents(<<>>)
  /\ fileIdx = 1
  /\ pc = "idle"
  /\ exc = "none"
  /\ handles = {}
  /\ dirs = {}
  /\ disk = EmptyDict
  /\ data = NoData
  /\ title = <<>>
  /\ chapter_idx = 0
  /\ verse_idx = 0
  /\ chapter_data = <<>>
  /\ token_totals = [m \in MethodNames |-> 0]

MethodInit ==
  /\ BuildIdle
  /\ phase = "input"
  /\ word \in InputWords
  /\ method = "none"
  /\ letter_names = NoTable
  /\ result = 0
  /\ split = 0
  /\ parts = <<0, 0>>
  /\ applied = <<>>
  /\ ciphered = <<>>

\* The tables method m can be called with.
ArgsOf(m) == IF m \in NameMethods THEN NameArgs ELSE {NoTable}

\* ADDITIVE_METHODS[m](word) or ADDITIVE_METHODS[m](word, table)
CallOnWord ==
  /\ phase = "input"
  /\ \E m \in MethodNames : \E ln \in ArgsOf(m) :
       /\ method' = m
       /\ letter_names' = ln
       /\ result' = CallMethod(m, word, ln)
  /\ phase' = "called"
  /\ UNCHANGED <<word, split, parts, applied, ciphered>>
  /\ UNCHANGED buildVars

\* The same method, with the same table, on word[:k] and on word[k:].
CallOnPieces ==
  /\ phase = "called"
  /\ \E k \in 0..Len(word) :
       /\ split' = k
       /\ parts' = <<CallMethod(method, PySlice(word, 0, k), letter_names),
                     CallMethod(method, PySlice(word, k, Len(word)), letter_names)>>
  /\ phase' = "split"
  /\ UNCHANGED <<word, method, letter_names, result, applied, ciphered>>
  /\ UNCHANGED buildVars

\* The string the next substitution is applied to.
CipherInput == IF applied = <<>> THEN word ELSE ciphered

\* _transform(_strip_non_hebrew(s), map), as every cipher method calls it.
ApplyCipher ==
  /\ phase \in {"input", "ciphered"}
  /\ Len(word) <= MaxCipherLen \/ word = Bereshit
  /\ Len(applied) < MaxRounds
  /\ \E c \in CipherNames :
       /\ applied' = Append(applied, c)
       /\ ciphered' = _transform(_strip_non_hebrew(CipherInput), CipherMap(c))
  /\ phase' = "ciphered"
  /\ UNCHANGED <<word, method, letter_names, result, split, parts>>
  /\ UNCHANGED buildVars

MethodNext ==
  \/ CallOnWord
  \/ CallOnPieces
  \/ ApplyCipher

MethodSpec == MethodInit /\ [][MethodNext]_vars

(***************************************************************************)
(* Properties of a run of main(), checked under Spec.                      *)
(***************************************************************************)
\* The run of main() is over: it returned, or an exception left it.
RunOver == pc \in {"done", "raised"}

\* A chapter file holds a whole JSON document when its last piece is the
\* one that closes the outer objects.
Complete(content) == content # <<>> /\ content[Len(content)].kind = "close"

\* A file of the listing that precompute_book can process to its end.
WellFormed(n) ==
  EndsWithJson(n) /\ source[n].parses /\ source[n].text.type = "list"

\* Every chapter of file n has its chapter file, whole.
ChaptersWritten(n) ==
  \A c \in 1..Len(source[n].text.value) :
    /\ <<TitleOf(source[n], n), c>> \in DOMAIN disk
    /\ Complete(disk[<<TitleOf(source[n], n), c>>])

\* The verse records the run holds: those of the chapter in hand and those
\* written to the chapter files.
VerseRecords ==
  {chapter_data[i] : i \in 1..Len(chapter_data)}
  \cup UNION {{disk[p][i].body[1] : i \in {j \in 1..Len(disk[p]) : disk[p][j].kind = "verse"}}
              : p \in DOMAIN disk}

\* C1: once a run over a directory is over with no failure other than the
\* structural error of a file whose "text" is no list, every well-formed
\* .json file of the listing has all its chapter files written, wherever the
\* bad file stands in the listing.
C1_SiblingFilesProcessed ==
  (mode = "dir" /\ RunOver /\ exc \in {"none", "ValueError"})
    => \A i \in 1..Len(listing) : WellFormed(listing[i]) => ChaptersWritten(listing[i])

\* A verse made of two runs of letters joined by one maqaf.
MaqafJoined(v) ==
  \E k \in 2..(Len(v) - 1) :
    /\ v[k] = Maqaf
    /\ \A i \in 1..Len(v) : i # k => v[i] \in HebrewLetters

\* C2: in every verse record, a verse that is two letter runs joined only by
\* a maqaf is recorded as two tokens, the two runs, each with its own entry
\* of values.
C2_MaqafSeparatesTokens ==
  \A r \in VerseRecords :
    MaqafJoined(r.text) =>
      \E k \in 2..(Len(r.text) - 1) :
        /\ r.text[k] = Maqaf
        /\ r.tokens = <<SubSeq(r.text, 1, k - 1), SubSeq(r.text, k + 1, Len(r.text))>>
        /\ Len(r.values.tokens) = 2

\* C6: at every point of a run, a failed one included, each chapter file on
\* disk holds the whole JSON record of its chapter: none is truncated.
C6_ChapterFileWholeOrAbsent == \A p \in DOMAIN disk : Complete(disk[p])

\* C7: no file handle is open when precompute_book has returned to main or
\* has raised (the run is then over), whichever way it was left.
C7_HandlesClosedOnExit == pc \in {"main", "done", "raised"} => handles = {}

\* C7 witness: precompute_book has opened and read a source file, raised
\* ValueError on its "text", and no handle is open.
C7_Witness ==
  /\ pc = "raised" /\ exc = "ValueError" /\ handles = {}
  /\ data = source[CurrentFile]

\* A verse of white space and cantillation marks (U+0591..U+05AF) only.
BlankVerse(v) ==
  \A i \in 1..Len(v) : IsSpace(v[i]) \/ (DiacriticFirst <= v[i] /\ v[i] < Sheva)

\* C8: in every verse record, sum_of_tokens of each method is the sum of that
\* method's values over the verse's own token entries; a verse of white space
\* and cantillation marks only has no token and a sum of 0 for every method.
C8_SumOfTokensOwnVerse ==
  \A r \in VerseRecords :
    /\ \A m \in MethodNames :
         r.values.sum_of_tokens[m] =
           PySum([j \in 1..Len(r.values.tokens) |-> r.values.tokens[j].v[m]])
    /\ BlankVerse(r.text) =>
         /\ r.tokens = <<>>
         /\ r.values.tokens = <<>>
         /\ \A m \in MethodNames : r.values.sum_of_tokens[m] = 0

\* C8 witness: the chapter in hand holds the record of a blank verse, with
\* no token and sums of 0, right after a verse whose sums are not 0.
C8_Witness ==
  \E i \in 2..Len(chapter_data) :
    /\ BlankVerse(chapter_data[i].text)
    /\ chapter_data[i].tokens = <<>>
    /\ \A m \in MethodNames : chapter_data[i].values.sum_of_tokens[m] = 0
    /\ chapter_data[i - 1].values.sum_of_tokens["hechrachi"] > 0

\* C11: in every verse record, no entry of "tokens" and no "t" of a token
\* entry is the empty string: a fragment without a Hebrew letter (digits or
\* punctuation only) is dropped, not recorded as an empty token.
C11_NoEmptyToken ==
  \A r \in VerseRecords :
    /\ \A i \in 1..Len(r.tokens) : r.tokens[i] # <<>>
    /\ \A i \in 1..Len(r.values.tokens) : r.values.tokens[i].t # <<>>

(***************************************************************************)
(* Properties of the methods, checked under MethodSpec.                    *)
(***************************************************************************)
\* The letters of a sequence, as a set.
Range(seq) == {seq[i] : i \in 1..Len(seq)}

\* The string a cipher method substitutes in: the Hebrew letters of word.
Stripped == _strip_non_hebrew(word)

\* C3: whichever of the 8 ciphers is applied, every letter has an explicit
\* image in the cipher's table (none is left to the identity fallback of
\* _transform), and Achas Beta maps each letter of its third group to a
\* letter of its first group.
C3_CipherTablesTotal ==
  (phase = "ciphered" /\ Len(applied) = 1) =>
    \A i \in 1..Len(Stripped) :
      /\ FinalToBase(Stripped[i]) \in DOMAIN CipherMap(applied[1])
      /\ (applied[1] = "achas_beta" /\ FinalToBase(Stripped[i]) \in Range(g3))
           => ciphered[i] \in Range(g1)

FinalForms == {FinalKaf, FinalMem, FinalNun, FinalPe, FinalTsadi}

\* The value of a letter when final forms count 500..900 in alphabet order.
ElevatedValue(c) ==
  CASE c = FinalKaf -> 500
    [] c = FinalMem -> 600
    [] c = FinalNun -> 700
    [] c = FinalPe -> 800
    [] c = FinalTsadi -> 900
    [] OTHER -> _HECHRACHI[c]

\* The string the cipher of the method called turns word into.
Image == _transform(Stripped, CipherMap(method))

\* C4: atbach and ayak_bachar score the ciphered string with final forms
\* counting 500..900, the six other cipher methods score it with the
\* standard values; for the reference word hechrachi is 913, atbach 2207 and
\* ayak_bachar 139.
C4_CipherScoring ==
  phase = "called" =>
    /\ method \in {"atbach", "ayak_bachar"} =>
         result = PySum([i \in 1..Len(Image) |-> ElevatedValue(Image[i])])
    /\ method \in CipherNames \ {"atbach", "ayak_bachar"} =>
         result = PySum([i \in 1..Len(Image) |-> _HECHRACHI[Image[i]]])
    /\ (word = Bereshit /\ method = "hechrachi") => result = 913
    /\ (word = Bereshit /\ method = "atbach") => result = 2207
    /\ (word = Bereshit /\ method = "ayak_bachar") => result = 139

\* C4 witness: atbach_value was called on the reference word, whose image
\* holds final forms, and returned 2207.
C4_Witness ==
  /\ phase = "called" /\ word = Bereshit /\ method = "atbach"
  /\ Range(Image) \cap FinalForms # {}
  /\ result = 2207

\* C5: every method is additive: what it returns for a string is the sum of
\* what it returns for the two pieces of the string, wherever the string is
\* cut.
C5_MethodsAdditive == phase = "split" => result = parts[1] + parts[2]

\* C9: on a string of base letters, Reverse Avgad after Avgad and Avgad after
\* Reverse Avgad both give the string back, the wrap between the last and
\* the first letter included.
C9_AvgadMutualInverses ==
  ( /\ phase = "ciphered"
    /\ applied \in {<<"avgad", "reverse_avgad">>, <<"reverse_avgad", "avgad">>}
    /\ Range(word) \subseteq BaseLetters )
    => ciphered = word

\* C9 witness: Avgad then Reverse Avgad applied to the last letter, which
\* Avgad wraps to the first, gave the last letter back.
C9_Witness ==
  /\ phase = "ciphered" /\ applied = <<"avgad", "reverse_avgad">>
  /\ word = <<Tav>> /\ ciphered = <<Tav>>
  /\ _transform(word, _AVGAD_MAP) = <<Alef>>

\* The standard value of a letter name, letter by letter.
NameValue(name) == PySum([i \in 1..Len(name) |-> DictGet(_HECHRACHI, name[i], 0)])

\* What one letter whose name is in the table adds under method m: the
\* value of the name, of the name without its first letter, of its last
\* letter.
Contribution(m, name) ==
  CASE m = "shemi" -> NameValue(name)
    [] m = "neelam" -> IF name = <<>> THEN 0 ELSE NameValue(Tail(name))
    [] m = "ofanim" -> IF name = <<>> THEN 0 ELSE NameValue(<<name[Len(name)]>>)

\* The letters of word that the table passed has a name for.
Named == SelectSeq(Stripped, LAMBDA c : c \in DOMAIN letter_names.table)

\* C10: shemi, neelam and ofanim called with a caller's table return a
\* number (no error): the sum of the contributions of the letters the table
\* has a name for; a letter missing from the table adds 0.
C10_MissingNameAddsZero ==
  (phase = "called" /\ method \in NameMethods /\ ~letter_names.none) =>
    /\ result \in Nat
    /\ result = PySum([i \in 1..Len(Named) |->
                        Contribution(method, letter_names.table[Named[i]])])
    /\ Named = <<>> => result = 0

\* C10 witness: a method was called with a table that lacks one letter of
\* the word and names another, and returned the named letter's share alone.
C10_Witness ==
  /\ phase = "called" /\ method = "shemi" /\ ~letter_names.none
  /\ word = <<Alef, Tav>>
  /\ DOMAIN letter_names.table = {Alef}
  /\ letter_names.table[Alef] = <<Alef, Lamed, FinalPe>>
  /\ result = 111

====
